---- MODULE Spec2Model ----
(***************************************************************************)
(* Model of python/sparktk/models/kmeans.py: the KMeans.train entry point  *)
(* and the KMeansModel handle (properties and the four operations), driven *)
(* by a caller that owns two Python lists (columns, scalings) and against  *)
(* a mock execution context / engine whose replies and failures are        *)
(* chosen nondeterministically.                                            *)
(*                                                                         *)
(* Every Python or engine value is a record [kind, val]; the kind is the   *)
(* run-time type (Python list, None, int, float, long, str; engine Vector, *)
(* Option, Double, Long, ...), so a conversion is never the identity.      *)
(***************************************************************************)
EXTENDS Integers, Sequences, FiniteSets, TLC

VARIABLES heap, model, call, engineCalls, reply, result, fault

vars == <<heap, model, call, engineCalls, reply, result, fault>>

(***************************************************************************)
(* Bounds.                                                                 *)
(***************************************************************************)
MaxK == 2
MaxCols == 2
MaxScalings == 2

(***************************************************************************)
(* Values.                                                                 *)
(***************************************************************************)
V(kind, val) == [kind |-> kind, val |-> val]

PyNone == V("None", <<>>)
PyList(s) == V("list", s)
PyInt(n) == V("int", n)
PyLong(n) == V("long", n)
\* a Python float, in tenths: PyFloat(27) is 2.7
PyFloat(tenths) == V("float", tenths)
PyStr(s) == V("str", s)

IsNone(v) == v.kind = "None"

\* Python truthiness of the values that reach a boolean context here
Truthy(v) ==
    CASE v.kind = "None" -> FALSE
      [] v.kind = "list" -> Len(v.val) > 0
      [] v.kind = "int" -> v.val # 0
      [] v.kind = "long" -> v.val # 0
      [] v.kind = "float" -> v.val # 0
      [] v.kind = "str" -> v.val # ""
      [] OTHER -> TRUE

Return(v) == [kind |-> "return", val |-> v]
Raise(e) == [kind |-> "raise", val |-> e]
NoFault == [at |-> "none", exc |-> "none"]

\* the caller's frames; frame._scala is the engine handle of a frame
Frames == {"frame1", "frame2"}
ColumnNames == <<"x", "y", "z", "w">>
ScalingValues == {2}
tk_context == "tk_context"

SeqsUpTo(S, n) == UNION {[1..m -> S] : m \in 0..n}
Range(s) == {s[i] : i \in 1..Len(s)}
\* column lists name distinct columns of a frame
ColumnSeqs ==
    {s \in SeqsUpTo({ColumnNames[i] : i \in 1..MaxCols}, MaxCols) :
        Cardinality(Range(s)) = Len(s)}
ScalingSeqs == SeqsUpTo(ScalingValues, MaxScalings)

\* heap addresses of the lists the caller and train create
Addr == {"cols", "scal", "dflt"}
Null == "null"

NullRef == V("null", <<>>)
NoModel == [_context |-> Null, _columns |-> Null, _scalings |-> Null, _scala |-> NullRef]
NoCall == [name |-> "none", args |-> <<>>]
NoReply == V("noreply", <<>>)

Init ==
    /\ heap = [a \in Addr |-> PyList(<<>>)]
    /\ model = NoModel
    /\ call = NoCall
    /\ engineCalls = <<>>
    /\ reply = NoReply
    /\ result = Return(PyNone)
    /\ fault = NoFault

(***************************************************************************)
(* The execution context's conversion utilities and Python built-ins.      *)
(***************************************************************************)
\* jutils.convert.to_scala_vector_string: list of strings -> engine Vector[String]
to_scala_vector_string(l) == V("Vector[String]", l.val)

\* jutils.convert.to_scala_vector_double: list of numbers -> engine Vector[Double]
to_scala_vector_double(l) == V("Vector[Double]", [i \in 1..Len(l.val) |-> V("Double", l.val[i])])

\* jutils.convert.to_scala_option: None -> empty Option, anything else -> Some(value)
to_scala_option(v) == IF IsNone(v) THEN V("Option.None", <<>>) ELSE V("Option.Some", v)

\* frame._scala
scala_of(frame) == V("JFrame", frame)

\* Python 2 long(): truncates a float toward zero, rejects a non-numeric string
long(v) ==
    CASE v.kind = "int" -> PyLong(v.val)
      [] v.kind = "long" -> v
      [] v.kind = "float" ->
            PyLong(IF v.val >= 0 THEN v.val \div 10 ELSE -((-v.val) \div 10))
      [] OTHER -> V("exception", "ValueError")

\* list(java collection): a Python list of the same elements in the same order
list(j) == PyList(j.val)

\* int(java long): the Python int of the same value
int(n) == PyInt(n.val)

IsException(v) == v.kind = "exception"

\* faulty variant: the wrapper catches the failure and raises its own error
propagate_wrapped(exc) == Raise("KMeansError")

\* an exception no handler catches leaves the wrapper as it was raised
propagate(exc) == Raise(exc)

EngineCall(method, args) == [method |-> method, args |-> args]

\* an exception that reaches the caller ends the caller's script
Running == result.kind # "raise"

(***************************************************************************)
(* The mock engine and the inputs of the calls.                            *)
(***************************************************************************)
\* what a reference denotes: None for the null reference, else the list at it
Deref(ref) == IF ref = Null THEN PyNone ELSE heap[ref]

\* model references the engine's train can return
ScalaModels == {"kmodel1", "kmodel2"}

\* (max_iter, epsilon in units of 1e-4, init_mode); the first is the defaults
HyperParams == {<<20, 1, "k-means||">>, <<5, 10, "random">>}

Seeds == {PyNone, PyInt(0), PyFloat(-27), PyStr("abc")}

\* failures of the collaborators: a conversion utility or the engine raises
EngineErrors == {"Py4JJavaError", "Py4JNetworkError"}
ConvFault(place) == [at |-> place, exc |-> "Py4JError"]
EngineFaults == {[at |-> "engine", exc |-> e] : e \in EngineErrors}
TrainFaults ==
    {NoFault, ConvFault("to_scala_vector_string"), ConvFault("to_scala_vector_double"),
     ConvFault("to_scala_option")} \cup EngineFaults

(***************************************************************************)
(* KMeans.train                                                            *)
(***************************************************************************)
\* faulty variant: only None selects the default: scalings if scalings is not None else ...
scalings_given_not_none(scalings) == ~IsNone(scalings)

\* line 9, the test of `scalings or ...`
scalings_given(scalings) == Truthy(scalings)

\* faulty variant: the default sized to the columns: [1 for c in columns]
default_scalings_per_column(k) == PyList([i \in 1..Len(heap["cols"].val) |-> 1])

\* line 9, [1 for i in xrange(k)]
default_scalings(k) == PyList([i \in 1..k |-> 1])

\* faulty variant: a truthiness test: long(seed) if seed else None
seed_to_long_falsy(seed) == IF Truthy(seed) THEN long(seed) ELSE PyNone

\* line 13, seed if seed is None else long(seed)
seed_to_long(seed) == IF IsNone(seed) THEN seed ELSE long(seed)

\* faulty variant: k and max_iter change places
train_call_swapped(frame, scala_columns, scala_scalings, k, max_iter, epsilon, scala_seed, init_mode) ==
    EngineCall("train",
        <<scala_of(frame), scala_columns, scala_scalings, max_iter, k, epsilon,
          scala_seed, init_mode>>)

\* line 15, the call of the engine's train
train_call(frame, scala_columns, scala_scalings, k, max_iter, epsilon, scala_seed, init_mode) ==
    EngineCall("train",
        <<scala_of(frame), scala_columns, scala_scalings, k, max_iter, epsilon,
          scala_seed, init_mode>>)

\* KMeansModel.__init__: the handle keeps the references it is given
KMeansModel(context, columns, scalings, scala_model) ==
    [_context |-> context, _columns |-> columns, _scalings |-> scalings,
     _scala |-> scala_model]

\* KMeans.train(tk_context, frame, columns, scalings, k, max_iter, epsilon, seed,
\* init_mode): columns and scalings are references to the caller's lists
\* (scalings may be None); f is the failure the collaborators produce (if any)
\* and scala_model the reference the engine returns
Train(frame, columns, scalings, k, max_iter, epsilon, seed, init_mode, f, scala_model) ==
    LET given == scalings_given(Deref(scalings))
        scalings1 == IF given THEN scalings ELSE "dflt"
        heap1 == IF given THEN heap ELSE [heap EXCEPT !["dflt"] = default_scalings(k)]
        scala_columns == to_scala_vector_string(heap1[columns])
        scala_scalings == to_scala_vector_double(heap1[scalings1])
        seed1 == seed_to_long(seed)
        scala_seed == to_scala_option(seed1)
        early == f.at \in {"to_scala_vector_string", "to_scala_vector_double"}
        longFails == ~early /\ IsException(seed1)
        called == ~early /\ ~longFails /\ f.at # "to_scala_option"
        ok == called /\ f.at # "engine"
        new == KMeansModel(tk_context, columns, scalings1, V("KMeansModel", scala_model))
    IN  /\ Running
        /\ model = NoModel
        /\ IsException(seed1) => f.at \notin {"to_scala_option", "engine"}
        /\ ok \/ scala_model = CHOOSE m \in ScalaModels : TRUE
        /\ call' = [name |-> "train",
                    args |-> <<frame, columns, scalings, k, max_iter, epsilon, seed, init_mode>>]
        /\ fault' = IF longFails THEN [at |-> "long", exc |-> seed1.val] ELSE f
        /\ engineCalls' =
              IF called
              THEN <<train_call(frame, scala_columns, scala_scalings, k, max_iter,
                                epsilon, scala_seed, init_mode)>>
              ELSE <<>>
        /\ reply' = IF ok THEN V("KMeansModel", scala_model) ELSE NoReply
        /\ result' = IF ok THEN Return(new)
                     ELSE propagate(IF longFails THEN seed1.val ELSE f.exc)
        /\ model' = IF ok THEN new ELSE model
        /\ heap' = IF ok THEN heap1 ELSE heap

(***************************************************************************)
(* The caller changes one of its own lists (list.append / list.pop).       *)
(***************************************************************************)
CallerLists == {"cols", "scal"}
Elements(a) == IF a = "cols" THEN {ColumnNames[i] : i \in 1..MaxCols} ELSE ScalingValues
MaxLen(a) == IF a = "cols" THEN MaxCols ELSE MaxScalings

ListAppend(a, v) ==
    /\ Running
    /\ Len(heap[a].val) < MaxLen(a)
    /\ a = "cols" => v \notin Range(heap[a].val)
    /\ heap' = [heap EXCEPT ![a] = PyList(Append(heap[a].val, v))]
    /\ call' = [name |-> "list.append", args |-> <<a, v>>]
    /\ engineCalls' = <<>>
    /\ reply' = NoReply
    /\ result' = Return(PyNone)
    /\ fault' = NoFault
    /\ UNCHANGED model

ListPop(a) ==
    /\ Running
    /\ Len(heap[a].val) > 0
    /\ heap' = [heap EXCEPT ![a] = PyList(SubSeq(heap[a].val, 1, Len(heap[a].val) - 1))]
    /\ call' = [name |-> "list.pop", args |-> <<a>>]
    /\ engineCalls' = <<>>
    /\ reply' = NoReply
    /\ result' = Return(PyNone)
    /\ fault' = NoFault
    /\ UNCHANGED model

(***************************************************************************)
(* KMeansModel: properties and operations of the trained handle.           *)
(***************************************************************************)
\* one call of the wrapper on the handle: it makes the conversions (one of which
\* fails when f names it), then the engine call theCall (which fails when f is
\* an engine failure and else returns r), and returns ret
ModelCall(name, args, self, theCall, f, r, ret) ==
    /\ Running
    /\ model # NoModel
    /\ call' = [name |-> name, args |-> args]
    /\ fault' = f
    /\ engineCalls' = IF f.at \in {"none", "engine"} THEN <<theCall>> ELSE <<>>
    /\ reply' = IF f = NoFault THEN r ELSE NoReply
    /\ result' = IF f = NoFault THEN Return(ret) ELSE propagate(f.exc)
    /\ model' = self
    /\ UNCHANGED heap

\* the properties columns and scalings return the handle's own lists
columns_get(self) == heap[self._columns]
scalings_get(self) == heap[self._scalings]

LocalRead(name, value) ==
    /\ Running
    /\ model # NoModel
    /\ call' = [name |-> name, args |-> <<>>]
    /\ fault' = NoFault
    /\ engineCalls' = <<>>
    /\ reply' = NoReply
    /\ result' = Return(value)
    /\ UNCHANGED <<heap, model>>

Get_columns == LocalRead("columns", columns_get(model))
Get_scalings == LocalRead("scalings", scalings_get(model))

\* the engine's replies to the zero-argument queries
KReplies == {PyInt(n) : n \in 0..MaxK}
MaxIterationsReplies == {PyInt(20), PyInt(5)}
InitializationModeReplies == {PyStr("k-means||"), PyStr("random")}
JVector(s) == V("Vector", s)
CentroidsReplies ==
    {V("List[Vector]", s) :
        s \in {<<>>, <<JVector(<<1, 2>>)>>, <<JVector(<<1, 2>>), JVector(<<3, 0>>)>>,
               <<JVector(<<3, 0>>), JVector(<<1, 2>>)>>}}

\* faulty variant: the vectors are not converted: list(self._scala.centroids())
centroids_get_shallow(r) == list(r)

k_get(r) == r
max_iterations_get(r) == r
initialization_mode_get(r) == r
\* [list(item) for item in list(self._scala.centroids())]
centroids_get(r) == PyList([i \in 1..Len(list(r).val) |-> list(list(r).val[i])])

Get_k(f, r) ==
    ModelCall("k", <<>>, model, EngineCall("k", <<model._scala>>), f, r, k_get(r))
Get_max_iterations(f, r) ==
    ModelCall("max_iterations", <<>>, model,
              EngineCall("maxIterations", <<model._scala>>), f, r, max_iterations_get(r))
Get_initialization_mode(f, r) ==
    ModelCall("initialization_mode", <<>>, model,
              EngineCall("initializationMode", <<model._scala>>), f, r,
              initialization_mode_get(r))
Get_centroids(f, r) ==
    ModelCall("centroids", <<>>, model,
              EngineCall("centroids", <<model._scala>>), f, r, centroids_get(r))

\* the optional-columns argument each operation hands to the engine
compute_sizes_columns(columns) == to_scala_option(columns)
compute_wsse_columns(columns) == to_scala_option(columns)
predict_columns(columns) ==
    to_scala_option(IF ~IsNone(columns) THEN to_scala_vector_string(columns) ELSE columns)
add_distance_columns_columns(columns) ==
    to_scala_option(IF ~IsNone(columns) THEN to_scala_vector_string(columns) ELSE columns)

\* faulty variant: predict keeps its columns argument: self._columns = columns
predict_self_stores(self, columns) ==
    IF IsNone(columns) THEN [self EXCEPT !._columns = Null] ELSE self

\* the handle after an operation: no operation assigns a field of self
compute_sizes_self(self, columns) == self
compute_wsse_self(self, columns) == self
predict_self(self, columns) == self
add_distance_columns_self(self, columns) == self

\* the engine's replies to the operations
JLong(n) == V("Long", n)
SizesReplies == {V("Array[Long]", s) : s \in {<<>>, <<JLong(3), JLong(0)>>, <<JLong(0), JLong(3)>>}}
CostReplies == {V("Double", 0), V("Double", 7)}
UnitReplies == {V("Unit", <<>>)}

\* faulty variant: the sizes are not converted: list(...)
compute_sizes_result_raw(r) == list(r)

\* [int(n) for n in ...]
compute_sizes_result(r) == PyList([i \in 1..Len(r.val) |-> int(r.val[i])])
compute_wsse_result(r) == r
predict_result(r) == PyNone
add_distance_columns_result(r) == PyNone

\* the failures an operation can meet, given the conversions it makes
OptionFaults == {NoFault, ConvFault("to_scala_option")} \cup EngineFaults
VectorFaults(columns) ==
    OptionFaults \cup
        (IF IsNone(columns) THEN {} ELSE {ConvFault("to_scala_vector_string")})

compute_sizes(frame, columns, f, r) ==
    /\ f \in OptionFaults
    /\ ModelCall("compute_sizes", <<frame, columns>>, compute_sizes_self(model, columns),
                 EngineCall("computeClusterSizes",
                            <<model._scala, scala_of(frame), compute_sizes_columns(columns)>>),
                 f, r, compute_sizes_result(r))

compute_wsse(frame, columns, f, r) ==
    /\ f \in OptionFaults
    /\ ModelCall("compute_wsse", <<frame, columns>>, compute_wsse_self(model, columns),
                 EngineCall("computeCost",
                            <<model._scala, scala_of(frame), compute_wsse_columns(columns)>>),
                 f, r, compute_wsse_result(r))

predict(frame, columns, f, r) ==
    /\ f \in VectorFaults(columns)
    /\ ModelCall("predict", <<frame, columns>>, predict_self(model, columns),
                 EngineCall("predict",
                            <<model._scala, scala_of(frame), predict_columns(columns)>>),
                 f, r, predict_result(r))

add_distance_columns(frame, columns, f, r) ==
    /\ f \in VectorFaults(columns)
    /\ ModelCall("add_distance_columns", <<frame, columns>>,
                 add_distance_columns_self(model, columns),
                 EngineCall("addDistanceColumns",
                            <<model._scala, scala_of(frame),
                              add_distance_columns_columns(columns)>>),
                 f, r, add_distance_columns_result(r))

\* the columns argument of an operation: None or the caller's columns list
ColumnsArgs == {PyNone, heap["cols"]}
OpFaults == VectorFaults(PyList(<<>>))
\* r is only looked at when the call succeeds
Replies(f, S) == IF f = NoFault THEN S ELSE {CHOOSE r \in S : TRUE}

Next ==
    \/ \E f \in TrainFaults, frame \in Frames, scalings \in {Null, "scal"}, k \in 0..MaxK,
          hp \in HyperParams, scala_model \in ScalaModels, seed \in Seeds :
          Train(frame, "cols", scalings, k, hp[1], hp[2], seed, hp[3], f, scala_model)
    \/ \E a \in CallerLists : \E v \in Elements(a) : ListAppend(a, v)
    \/ \E a \in CallerLists : ListPop(a)
    \/ Get_columns
    \/ Get_scalings
    \/ \E f \in {NoFault} \cup EngineFaults : \E r \in Replies(f, KReplies) : Get_k(f, r)
    \/ \E f \in {NoFault} \cup EngineFaults : \E r \in Replies(f, MaxIterationsReplies) :
          Get_max_iterations(f, r)
    \/ \E f \in {NoFault} \cup EngineFaults : \E r \in Replies(f, InitializationModeReplies) :
          Get_initialization_mode(f, r)
    \/ \E f \in {NoFault} \cup EngineFaults : \E r \in Replies(f, CentroidsReplies) :
          Get_centroids(f, r)
    \/ \E frame \in Frames, columns \in ColumnsArgs, f \in OpFaults :
          \E r \in Replies(f, SizesReplies) : compute_sizes(frame, columns, f, r)
    \/ \E frame \in Frames, columns \in ColumnsArgs, f \in OpFaults :
          \E r \in Replies(f, CostReplies) : compute_wsse(frame, columns, f, r)
    \/ \E frame \in Frames, columns \in ColumnsArgs, f \in OpFaults :
          \E r \in Replies(f, UnitReplies) : predict(frame, columns, f, r)
    \/ \E frame \in Frames, columns \in ColumnsArgs, f \in OpFaults :
          \E r \in Replies(f, UnitReplies) : add_distance_columns(frame, columns, f, r)

Spec == Init /\ [][Next]_vars

(***************************************************************************)
(* Properties.                                                             *)
(***************************************************************************)
ModelOperations == {"compute_sizes", "compute_wsse", "predict", "add_distance_columns"}
EngineProperties == {"k", "max_iterations", "initialization_mode", "centroids"}
LocalProperties == {"columns", "scalings"}
ListCalls == {"list.append", "list.pop"}
ConversionPlaces ==
    {"to_scala_vector_string", "to_scala_vector_double", "to_scala_option", "long"}
Ones(n) == PyList([i \in 1..n |-> 1])
Returned == result.kind = "return"
EngineCalled == Len(engineCalls) > 0

\* C1: in each of the four operations the engine receives the empty Option when
\* columns is None and, when columns is a list, an Option holding the engine
\* Vector[String] conversion of that list (never the raw Python list).
C1_ColumnsReachEngineAsOptionOfVector ==
    (call.name \in ModelOperations /\ EngineCalled) =>
        engineCalls[1].args[3] =
            IF IsNone(call.args[2])
            THEN V("Option.None", <<>>)
            ELSE V("Option.Some", to_scala_vector_string(call.args[2]))

\* C2: train without scalings uses a list of exactly k ones, whatever the number
\* of columns; the engine's train receives its Vector[Double] conversion and the
\* returned model's scalings property returns it.
C2_DefaultScalingsAreKOnes ==
    (call.name = "train" /\ call.args[3] = Null) =>
        /\ EngineCalled => engineCalls[1].args[3] = to_scala_vector_double(Ones(call.args[4]))
        /\ Returned =>
              /\ scalings_get(result.val) = Ones(call.args[4])
              /\ Len(scalings_get(result.val).val) = call.args[4]

C2_Witness ==
    /\ call.name = "train" /\ call.args[3] = Null /\ Returned /\ EngineCalled
    /\ call.args[4] = MaxK
    /\ Len(heap["cols"].val) = 1
    /\ scalings_get(model) = Ones(MaxK)

\* C3 as stated: every call of train, whatever its arguments, makes exactly one
\* call of the engine's train (here even granting that no conversion utility
\* of the execution context fails).
C3_TrainAlwaysMakesOneEngineCall ==
    (call.name = "train" /\ fault.exc # "Py4JError") => Len(engineCalls) = 1

\* What train hands to the engine, slot by slot, from the caller's arguments.
TrainArgumentsForwarded ==
    LET a == call.args
        e == engineCalls[1]
    IN  /\ e.method = "train"
        /\ Len(e.args) = 8
        /\ e.args[1] = scala_of(a[1])
        /\ e.args[2] = to_scala_vector_string(heap[a[2]])
        /\ (a[3] # Null /\ Len(heap[a[3]].val) > 0) =>
              e.args[3] = to_scala_vector_double(heap[a[3]])
        /\ e.args[3].kind = "Vector[Double]"
        /\ e.args[4] = a[4]
        /\ e.args[5] = a[5]
        /\ e.args[6] = a[6]
        /\ e.args[7].kind = IF IsNone(a[7]) THEN "Option.None" ELSE "Option.Some"
        /\ e.args[8] = a[8]

\* C3 (amended): train rejects no argument itself; unless a type conversion
\* (long(seed) or a conversion utility) raises first, in which case no engine
\* call is made, it makes exactly one call of the engine's train with the
\* arguments (frame handle, converted columns, converted scalings, k, max_iter,
\* epsilon, optional seed, init_mode), and the model it returns wraps the
\* reference the engine returned.
C3_TrainForwardsArguments ==
    call.name = "train" =>
        /\ IF fault.at \in ConversionPlaces
           THEN engineCalls = <<>>
           ELSE Len(engineCalls) = 1 /\ TrainArgumentsForwarded
        /\ Returned =>
              /\ reply.kind = "KMeansModel"
              /\ result.val._scala = reply
              /\ model = result.val

C3_Witness ==
    /\ call.name = "train" /\ Returned
    /\ call.args[4] = 0
    /\ heap["cols"].val = <<>>
    /\ call.args[5] = 5
    /\ Len(engineCalls) = 1 /\ TrainArgumentsForwarded

\* the engine method each wrapper call uses
MethodOf(name) ==
    CASE name = "train" -> "train"
      [] name = "k" -> "k"
      [] name = "max_iterations" -> "maxIterations"
      [] name = "initialization_mode" -> "initializationMode"
      [] name = "centroids" -> "centroids"
      [] name = "compute_sizes" -> "computeClusterSizes"
      [] name = "compute_wsse" -> "computeCost"
      [] name = "predict" -> "predict"
      [] name = "add_distance_columns" -> "addDistanceColumns"
      [] OTHER -> "none"

\* C4: a failure of the engine or of a conversion, in train, an operation or an
\* engine-backed property read, reaches the caller as the same exception; the
\* wrapper call makes at most one engine call, of its own method, and none
\* after a failure; a failed train yields no model handle.
C4_FailuresPropagateUnchanged ==
    /\ Len(engineCalls) <= 1
    /\ EngineCalled => engineCalls[1].method = MethodOf(call.name)
    /\ fault.at # "none" =>
          /\ result = Raise(fault.exc)
          /\ reply = NoReply
          /\ EngineCalled => fault.at = "engine"
          /\ call.name = "train" => model = NoModel
    /\ fault.at = "none" => Returned

C4_Witness ==
    /\ call.name = "train"
    /\ fault = [at |-> "engine", exc |-> "Py4JNetworkError"]
    /\ result = Raise("Py4JNetworkError")
    /\ Len(engineCalls) = 1

\* what the handle shows: its engine reference and what its columns and
\* scalings properties return
HandleView(m, h) ==
    <<m._scala, m._context,
      IF m._columns = Null THEN PyNone ELSE h[m._columns],
      IF m._scalings = Null THEN PyNone ELSE h[m._scalings]>>

\* C5: no property read and no operation, succeeding or failing, changes the
\* handle: columns, scalings and the engine model reference stay as they were.
C5_OperationsLeaveHandleUnchanged ==
    [][(model # NoModel /\
        call'.name \in ModelOperations \cup EngineProperties \cup LocalProperties)
          => HandleView(model', heap') = HandleView(model, heap)]_vars

C5_Witness ==
    /\ call.name = "predict"
    /\ ~IsNone(call.args[2])
    /\ result.kind = "raise"
    /\ model # NoModel
    /\ model._scalings = "dflt"

\* C6: the handle holds copies: a change the caller makes to the columns or the
\* scalings list it gave to train does not change what the handle's columns and
\* scalings properties return.
C6_HandleHoldsCopies ==
    [][(model # NoModel /\ call'.name \in ListCalls)
          => HandleView(model', heap') = HandleView(model, heap)]_vars

\* C7: an engine-backed property returns the converted form of the engine's
\* reply to that read: k, max_iterations and initialization_mode the reply
\* itself, centroids a list of lists with the reply's vectors, in order, each
\* with its coordinates in order.
C7_PropertiesMirrorEngine ==
    (call.name \in EngineProperties /\ Returned) =>
        /\ Len(engineCalls) = 1
        /\ engineCalls[1] = EngineCall(MethodOf(call.name), <<model._scala>>)
        /\ call.name # "centroids" => result.val = reply
        /\ call.name = "centroids" =>
              /\ result.val.kind = "list"
              /\ Len(result.val.val) = Len(reply.val)
              /\ \A i \in 1..Len(reply.val) :
                    /\ result.val.val[i].kind = "list"
                    /\ result.val.val[i].val = reply.val[i].val

C7_Witness ==
    /\ call.name = "centroids" /\ Returned
    /\ result.val = PyList(<<PyList(<<3, 0>>), PyList(<<1, 2>>)>>)

\* the integer long() gives for a numeric seed: the value truncated toward zero
LongOf(seed) ==
    IF seed.kind = "float"
    THEN (IF seed.val >= 0 THEN seed.val \div 10 ELSE -((-seed.val) \div 10))
    ELSE seed.val

\* C8: a seed of None reaches the engine's train as the empty Option; any other
\* seed, 0 included, reaches it as Some of the long integer of that seed.
C8_SeedForwardedAsOption ==
    (call.name = "train" /\ EngineCalled) =>
        IF IsNone(call.args[7])
        THEN engineCalls[1].args[7] = V("Option.None", <<>>)
        ELSE /\ call.args[7].kind \in {"int", "long", "float"}
             /\ engineCalls[1].args[7] = V("Option.Some", PyLong(LongOf(call.args[7])))

C8_Witness ==
    /\ call.name = "train" /\ EngineCalled
    /\ call.args[7] = PyInt(0)
    /\ engineCalls[1].args[7] = V("Option.Some", PyLong(0))

\* C9: an operation that returns has made exactly one engine call, on the
\* handle's engine model with the given frame's engine handle; compute_sizes
\* returns the engine's sizes as a list of ints, same length and order,
\* compute_wsse the engine's cost unchanged, predict and add_distance_columns
\* nothing.
C9_OperationResults ==
    (call.name \in ModelOperations /\ Returned) =>
        /\ Len(engineCalls) = 1
        /\ engineCalls[1].method = MethodOf(call.name)
        /\ engineCalls[1].args[1] = model._scala
        /\ engineCalls[1].args[2] = scala_of(call.args[1])
        /\ call.name = "compute_sizes" =>
              /\ result.val.kind = "list"
              /\ Len(result.val.val) = Len(reply.val)
              /\ \A i \in 1..Len(reply.val) : result.val.val[i] = PyInt(reply.val[i].val)
        /\ call.name = "compute_wsse" => result.val = reply
        /\ call.name \in {"predict", "add_distance_columns"} => result.val = PyNone

C9_Witness ==
    /\ call.name = "compute_sizes" /\ Returned
    /\ call.args[1] = "frame2"
    /\ result.val = PyList(<<PyInt(0), PyInt(3)>>)

\* C10: train with scalings=[] uses the default list of k ones (forwarded to
\* the engine and kept on the model, which does not keep the caller's empty
\* list); a non-empty scalings list is forwarded and kept as given, whatever
\* its length.
C10_EmptyScalingsDefaulted ==
    (call.name = "train" /\ call.args[3] # Null) =>
        IF heap[call.args[3]].val = <<>>
        THEN /\ EngineCalled =>
                   engineCalls[1].args[3] = to_scala_vector_double(Ones(call.args[4]))
             /\ Returned =>
                   /\ result.val._scalings # call.args[3]
                   /\ scalings_get(result.val) = Ones(call.args[4])
        ELSE /\ EngineCalled =>
                   engineCalls[1].args[3] = to_scala_vector_double(heap[call.args[3]])
             /\ Returned =>
                   /\ result.val._scalings = call.args[3]
                   /\ scalings_get(result.val) = heap[call.args[3]]

C10_Witness ==
    /\ call.name = "train" /\ call.args[3] # Null /\ Returned
    /\ heap["scal"].val = <<>>
    /\ call.args[4] = MaxK
    /\ scalings_get(model) = Ones(MaxK)
    /\ model._scalings = "dflt"

====
